---------------------------- MODULE Spec2Model ----------------------------
(* A model of the Trello project trend tool (src/trend.py, src/trello_api.py). *)
(*                                                                           *)
(* Text is modelled as sequences of one-character strings, so that writing   *)
(* a point to a store file and parsing it back with the regular expressions  *)
(* of the readers are computed, not assumed.  Dates are records [y, m, d]    *)
(* with the proleptic Gregorian calendar of datetime.                        *)
EXTENDS Integers, Sequences, FiniteSets, TLC

(***************************************************************************)
(* Bounds of the model.                                                    *)
(***************************************************************************)
\* Largest number of runs of the script (each a fresh process) on the same files.
MaxRuns == 2
\* Largest number of iterations of the projection loop that are explored.
MaxIter == 5

(***************************************************************************)
(* Characters, integers and their decimal text (str.format, int(), \d+).   *)
(***************************************************************************)
Digits == <<"0", "1", "2", "3", "4", "5", "6", "7", "8", "9">>

IsDigit(c) == \E i \in 1..10 : Digits[i] = c

DigitVal(c) == (CHOOSE i \in 1..10 : Digits[i] = c) - 1

\* \s of the regular expressions, restricted to the characters of the model.
IsSpace(c) == c \in {" ", "\n", "\t"}

RECURSIVE NatToStr(_)
NatToStr(n) == IF n < 10 THEN <<Digits[n + 1]>>
               ELSE NatToStr(n \div 10) \o <<Digits[(n % 10) + 1]>>

\* '{}'.format(n) for an int n: a minus sign for negative numbers.
IntToStr(n) == IF n < 0 THEN <<"-">> \o NatToStr(0 - n) ELSE NatToStr(n)

\* strftime's zero padded fields (%Y width 4, %m and %d width 2).
RECURSIVE ZeroPad(_, _)
ZeroPad(s, w) == IF Len(s) >= w THEN s ELSE ZeroPad(<<"0">> \o s, w)

\* int(s) for a string of decimal digits (leading zeros allowed).
RECURSIVE StrToNat(_)
StrToNat(s) == IF s = <<>> THEN 0
               ELSE 10 * StrToNat(SubSeq(s, 1, Len(s) - 1)) + DigitVal(s[Len(s)])

\* Index of the first character at or after i that is not a digit (\d+ is greedy).
RECURSIVE SkipDigits(_, _)
SkipDigits(s, i) == IF i <= Len(s) /\ IsDigit(s[i]) THEN SkipDigits(s, i + 1) ELSE i

\* Index of the first character at or after i that is not white space (\s*).
RECURSIVE SkipSpace(_, _)
SkipSpace(s, i) == IF i <= Len(s) /\ IsSpace(s[i]) THEN SkipSpace(s, i + 1) ELSE i

\* str.split(sep) for a one-character separator.
RECURSIVE Split(_, _)
Split(s, sep) ==
    IF \E i \in 1..Len(s) : s[i] = sep
    THEN LET i == CHOOSE j \in 1..Len(s) : s[j] = sep /\ \A h \in 1..(j - 1) : s[h] # sep
         IN  <<SubSeq(s, 1, i - 1)>> \o Split(SubSeq(s, i + 1, Len(s)), sep)
    ELSE <<s>>

\* Iterating a text file: the lines, each with its terminating newline if it has one.
RECURSIVE FileLines(_)
FileLines(text) ==
    IF text = <<>> THEN <<>>
    ELSE IF \E i \in 1..Len(text) : text[i] = "\n"
         THEN LET i == CHOOSE j \in 1..Len(text) :
                           text[j] = "\n" /\ \A h \in 1..(j - 1) : text[h] # "\n"
              IN  <<SubSeq(text, 1, i)>> \o FileLines(SubSeq(text, i + 1, Len(text)))
         ELSE <<text>>

IsPrefix(s, t) == Len(s) <= Len(t) /\ SubSeq(t, 1, Len(s)) = s

(***************************************************************************)
(* The data pattern of the readers:                                        *)
(*   ^(\d+)-(\d+)-(\d+)\s*=\s*(\d+)\s*$                                    *)
(* MatchData gives the four groups, or ok = FALSE when re.match fails.     *)
(***************************************************************************)
NoMatch == [ok |-> FALSE, year |-> <<>>, month |-> <<>>, day |-> <<>>,
            date |-> <<>>, remaining |-> <<>>]

MatchData(line) ==
    LET i1 == SkipDigits(line, 1)
        i2 == SkipDigits(line, i1 + 1)
        i3 == SkipDigits(line, i2 + 1)
        i4 == SkipSpace(line, i3)
        i5 == SkipSpace(line, i4 + 1)
        i6 == SkipDigits(line, i5)
        i7 == SkipSpace(line, i6)
    IN  IF /\ i1 > 1 /\ i1 <= Len(line) /\ line[i1] = "-"
           /\ i2 > i1 + 1 /\ i2 <= Len(line) /\ line[i2] = "-"
           /\ i3 > i2 + 1
           /\ i4 <= Len(line) /\ line[i4] = "="
           /\ i6 > i5
           /\ i7 = Len(line) + 1
        THEN [ok |-> TRUE,
              year |-> SubSeq(line, 1, i1 - 1),
              month |-> SubSeq(line, i1 + 1, i2 - 1),
              day |-> SubSeq(line, i2 + 1, i3 - 1),
              date |-> SubSeq(line, 1, i3 - 1),
              remaining |-> SubSeq(line, i5, i6 - 1)]
        ELSE NoMatch

(***************************************************************************)
(* datetime: construction, adding a week, formatting.                      *)
(***************************************************************************)
IsLeap(y) == (y % 4 = 0 /\ y % 100 # 0) \/ y % 400 = 0

DaysInMonth(y, m) == IF m = 2 THEN (IF IsLeap(y) THEN 29 ELSE 28)
                     ELSE IF m \in {4, 6, 9, 11} THEN 30 ELSE 31

\* datetime(year, month, day) raises ValueError outside these ranges.
ValidDate(y, m, d) == /\ y >= 1 /\ y <= 9999
                      /\ m >= 1 /\ m <= 12
                      /\ d >= 1 /\ d <= DaysInMonth(y, m)

Date(y, m, d) == [y |-> y, m |-> m, d |-> d]

\* date + timedelta(days=1); the caller checks the year (OverflowError past 9999).
NextDay(dt) == IF dt.d < DaysInMonth(dt.y, dt.m) THEN Date(dt.y, dt.m, dt.d + 1)
               ELSE IF dt.m < 12 THEN Date(dt.y, dt.m + 1, 1)
               ELSE Date(dt.y + 1, 1, 1)

RECURSIVE AddDays(_, _)
AddDays(dt, n) == IF n = 0 THEN dt ELSE AddDays(NextDay(dt), n - 1)

\* strftime('%Y-%m-%d')
FormatIso(dt) == ZeroPad(NatToStr(dt.y), 4) \o <<"-">> \o ZeroPad(NatToStr(dt.m), 2)
                 \o <<"-">> \o ZeroPad(NatToStr(dt.d), 2)

\* '{0}-{1}-{2}'.format(year, month, day): no padding.
FormatPlain(dt) == NatToStr(dt.y) \o <<"-">> \o NatToStr(dt.m) \o <<"-">> \o NatToStr(dt.d)


(***************************************************************************)
(* Python values held in a card record: strings, booleans and the one-key  *)
(* dictionaries of custom field values ({"number": "3"}, {"text": "x"}).   *)
(***************************************************************************)
Str(s) == [t |-> "str", s |-> s, b |-> FALSE, k |-> "", v |-> <<>>]

Bool(b) == [t |-> "bool", s |-> "", b |-> b, k |-> "", v |-> <<>>]

DictV(k, v) == [t |-> "dict", s |-> "", b |-> FALSE, k |-> k, v |-> v]

\* Python truth value: '' and False are false, a non-empty dict is true.
Truthy(x) == CASE x.t = "str" -> x.s # ""
               [] x.t = "bool" -> x.b
               [] OTHER -> TRUE

\* str.lower() on the names that occur on the boards of the model.
LowerTable == [Exclude |-> "exclude", EXCLUDE |-> "exclude",
               Complete |-> "complete", COMPLETE |-> "complete",
               Remaining |-> "remaining", REMAINING |-> "remaining",
               Name |-> "name", Exclude2 |-> "exclude2",
               Todo |-> "todo", Bug |-> "bug", Owner |-> "owner"]

Lower(s) == IF s \in DOMAIN LowerTable THEN LowerTable[s] ELSE s

\* d[key] = val on a dict held as a function from keys to values.
SetItem(d, key, val) == [x \in (DOMAIN d) \cup {key} |-> IF x = key THEN val ELSE d[x]]

(***************************************************************************)
(* float(s) and int(x).  A float is held as a whole number of quarters;    *)
(* the numbers of the model (whole numbers, halves and quarters) and their *)
(* sums are exact in binary floating point.                                *)
(***************************************************************************)
IsNatStr(s) == s # <<>> /\ \A i \in 1..Len(s) : IsDigit(s[i])

\* The fraction .f as quarters, when it is a whole number of quarters.
FracQuarters(f) == CASE f = <<"0">> -> 0
                     [] f = <<"2", "5">> -> 1
                     [] f = <<"5">> -> 2
                     [] f = <<"7", "5">> -> 3
                     [] OTHER -> -1

UnsignedFloat(s) ==
    LET parts == Split(s, ".")
    IN  IF Len(parts) = 1 /\ IsNatStr(s)
        THEN [ok |-> TRUE, q |-> 4 * StrToNat(s)]
        ELSE IF Len(parts) = 2 /\ IsNatStr(parts[1]) /\ FracQuarters(parts[2]) >= 0
        THEN [ok |-> TRUE, q |-> 4 * StrToNat(parts[1]) + FracQuarters(parts[2])]
        ELSE [ok |-> FALSE, q |-> 0]

\* float(s): ok = FALSE stands for ValueError.
ParseFloat(s) ==
    IF s # <<>> /\ s[1] = "-"
    THEN LET u == UnsignedFloat(Tail(s)) IN [ok |-> u.ok, q |-> 0 - u.q]
    ELSE UnsignedFloat(s)

\* int(x) of a float: truncation toward zero.
IntOfFloat(q) == IF q >= 0 THEN q \div 4 ELSE 0 - ((0 - q) \div 4)


(***************************************************************************)
(* The collaborator (trello_api.TrelloAPI) and the pure parts of           *)
(* ProjectTrend.  A response is the parsed JSON; a call named in the       *)
(* world's "bad" set gets a body that is not JSON, for which               *)
(* response_to_json returns None.                                          *)
(***************************************************************************)
Call(op, a, b) == [op |-> op, a |-> a, b |-> b]

\* A lookup that takes the first board whatever its name.
GetFirstBoard(raw, name) ==
    IF raw # <<>> THEN [found |-> TRUE, board |-> raw[1]]
    ELSE [found |-> FALSE, board |-> [id |-> "", name |-> ""]]

\* get_board_with_name: the first board with exactly that name, or None.
GetBoardWithName(raw, name) ==
    IF \E i \in 1..Len(raw) : raw[i].name = name
    THEN [found |-> TRUE,
          board |-> raw[CHOOSE i \in 1..Len(raw) :
                            raw[i].name = name /\ \A j \in 1..(i - 1) : raw[j].name # name]]
    ELSE [found |-> FALSE, board |-> [id |-> "", name |-> ""]]

\* for value in values: d[value['id']] = value['name'].  A dict is held as the
\* sequence of its items in insertion order; assigning to a key it has keeps its place.
RECURSIVE DictFromList(_, _)
DictFromList(d, values) ==
    IF values = <<>> THEN d
    ELSE LET v == Head(values)
             item == [id |-> v.id, name |-> v.name]
         IN  DictFromList(
                 IF \E i \in 1..Len(d) : d[i].id = v.id
                 THEN [i \in 1..Len(d) |-> IF d[i].id = v.id THEN item ELSE d[i]]
                 ELSE Append(d, item),
                 Tail(values))

HasKey(d, key) == \E i \in 1..Len(d) : d[i].id = key

Lookup(d, key) == d[CHOOSE i \in 1..Len(d) : d[i].id = key].name

\* The resolution of a name without lower-casing the names of the board.
FirstKeyNamedExactCase(d, wanted) ==
    IF \E i \in 1..Len(d) : d[i].name = wanted
    THEN [some |-> TRUE,
          id |-> d[CHOOSE i \in 1..Len(d) :
                       d[i].name = wanted /\ \A j \in 1..(i - 1) : d[j].name # wanted].id]
    ELSE [some |-> FALSE, id |-> ""]

\* The loops of _calculate_exclude that resolve a name: the key of the first
\* item whose lower-cased name is the wanted one, or None.
FirstKeyNamed(d, wanted) ==
    IF \E i \in 1..Len(d) : Lower(d[i].name) = wanted
    THEN [some |-> TRUE,
          id |-> d[CHOOSE i \in 1..Len(d) :
                       Lower(d[i].name) = wanted
                       /\ \A j \in 1..(i - 1) : Lower(d[j].name) # wanted].id]
    ELSE [some |-> FALSE, id |-> ""]

CalculateExclude(labelDict, listDict, trello_card) ==
    LET exclude_label == FirstKeyNamed(labelDict, "exclude")
        complete_list == FirstKeyNamed(listDict, "complete")
    IN  \/ /\ exclude_label.some
           /\ \E i \in 1..Len(trello_card.labels) : trello_card.labels[i] = exclude_label.id
        \/ /\ complete_list.some
           /\ trello_card.idList = complete_list.id

\* The loop over the custom field items of one card.
RECURSIVE StoreCustomFields(_, _, _)
StoreCustomFields(new_card, fieldDict, values) ==
    IF values = <<>> THEN new_card
    ELSE LET value == Head(values)
         IN  StoreCustomFields(
                 IF HasKey(fieldDict, value.idCustomField)
                 THEN SetItem(new_card, Lower(Lookup(fieldDict, value.idCustomField)),
                              value.value)
                 ELSE new_card,
                 fieldDict, Tail(values))

\* The body of the loop of initialize_cards for one raw card.
NormalizeCard(fieldDict, labelDict, listDict, card) ==
    StoreCustomFields(
        [id |-> Str(card.id), name |-> Str(card.name), list |-> Str(card.idList),
         exclude |-> Bool(CalculateExclude(labelDict, listDict, card))],
        fieldDict, card.items)

\* get_card_by_name: the index of the first card with that name, 0 when there is none.
GetCardByName(cs, name) ==
    IF \E i \in 1..Len(cs) : cs[i]["name"] = Str(name)
    THEN CHOOSE i \in 1..Len(cs) :
             cs[i]["name"] = Str(name) /\ \A j \in 1..(i - 1) : cs[j]["name"] # Str(name)
    ELSE 0

\* The remaining time with a default of zero for a card without a time.
GetCardRemainingTimeDefaultZero(card) ==
    IF ~Truthy(card["exclude"]) /\ "remaining" \in DOMAIN card
    THEN LET r == card["remaining"]
         IN  IF r.t # "dict" THEN [err |-> "TypeError", q |-> 0]
             ELSE IF r.k # "number" THEN [err |-> "KeyError", q |-> 0]
             ELSE IF ~ParseFloat(r.v).ok THEN [err |-> "ValueError", q |-> 0]
             ELSE [err |-> "", q |-> ParseFloat(r.v).q]
    ELSE [err |-> "", q |-> 0]

\* The remaining time with 'remaining' read before the exclude flag is looked at.
GetCardRemainingTimeParseFirst(card) ==
    IF "remaining" \in DOMAIN card
    THEN LET r == card["remaining"]
         IN  IF r.t # "dict" THEN [err |-> "TypeError", q |-> 0]
             ELSE IF r.k # "number" THEN [err |-> "KeyError", q |-> 0]
             ELSE IF ~ParseFloat(r.v).ok THEN [err |-> "ValueError", q |-> 0]
             ELSE IF Truthy(card["exclude"]) THEN [err |-> "", q |-> 0]
             ELSE [err |-> "", q |-> ParseFloat(r.v).q]
    ELSE IF Truthy(card["exclude"]) THEN [err |-> "", q |-> 0]
    ELSE [err |-> "", q |-> 4]

\* _get_card_remaining_time; err names the exception float() or [] raises.
GetCardRemainingTime(card) ==
    IF ~Truthy(card["exclude"])
    THEN IF "remaining" \in DOMAIN card
         THEN LET r == card["remaining"]
              IN  IF r.t # "dict" THEN [err |-> "TypeError", q |-> 0]
                  ELSE IF r.k # "number" THEN [err |-> "KeyError", q |-> 0]
                  ELSE IF ~ParseFloat(r.v).ok THEN [err |-> "ValueError", q |-> 0]
                  ELSE [err |-> "", q |-> ParseFloat(r.v).q]
         ELSE [err |-> "", q |-> 4]
    ELSE [err |-> "", q |-> 0]

\* The loop of add_datapoint: the sum so far, or the first exception.
RECURSIVE TotalRemaining(_, _)
TotalRemaining(cs, total) ==
    IF cs = <<>> THEN [err |-> "", q |-> total]
    ELSE LET r == GetCardRemainingTime(Head(cs))
         IN  IF r.err # "" THEN r ELSE TotalRemaining(Tail(cs), total + r.q)

\* open(path, 'a') and write: the text goes after what the file holds.
OpenAppend(old, text) == old \o text

\* A write that keeps what the file held.
OpenWriteKeeping(old, text) == old \o text

\* open(path, 'w') and write: the file is truncated first.
OpenWrite(old, text) == text

\* The text add_datapoint writes.
DatapointText(now, total) ==
    <<"\n">> \o FormatIso(now) \o <<" ", "=", " ">> \o IntToStr(IntOfFloat(total))


(***************************************************************************)
(* The readers of the store files.                                         *)
(***************************************************************************)
\* The colours with each point compared to the first point of the file.
PointStatusAgainstFirst(y, status) ==
    IF status = <<>> THEN "start"
    ELSE IF y[Len(y)] < y[1] THEN "better"
    ELSE IF y[Len(y)] > y[1] THEN "worse"
    ELSE "same"

\* The colour of a point in generate_trend: y is y_axis with the point appended,
\* status the list before the point.
PointStatus(y, status) ==
    IF status = <<>> THEN "start"
    ELSE IF y[Len(y)] < y[Len(y) - 1] THEN "better"
    ELSE IF y[Len(y)] > y[Len(y) - 1] THEN "worse"
    ELSE "same"

\* The loop of generate_trend over the lines of the file.  x_axis holds the dates
\* (time.mktime maps them one to one to the seconds of local midnight).
RECURSIVE ScanTrend(_, _)
ScanTrend(lines, acc) ==
    IF lines = <<>> \/ acc.err # "" THEN acc
    ELSE LET match == MatchData(Head(lines))
         IN  IF ~match.ok THEN ScanTrend(Tail(lines), acc)
             ELSE LET remaining == StrToNat(match.remaining)
                      y == Append(acc.y_axis, remaining)
                      yr == StrToNat(match.year)
                      mo == StrToNat(match.month)
                      dy == StrToNat(match.day)
                  IN  IF ~ValidDate(yr, mo, dy)
                      THEN [acc EXCEPT !.err = "ValueError", !.y_axis = y]
                      ELSE ScanTrend(Tail(lines),
                               [err |-> "",
                                y_axis |-> y,
                                x_axis |-> Append(acc.x_axis, Date(yr, mo, dy)),
                                status |-> Append(acc.status, PointStatus(y, acc.status))])

ReadTrend(text) ==
    ScanTrend(FileLines(text), [err |-> "", y_axis |-> <<>>, x_axis |-> <<>>, status |-> <<>>])

\* The loop of generate_estimated_trend over the lines of the file.
RECURSIVE ScanEstimate(_, _)
ScanEstimate(lines, acc) ==
    IF lines = <<>> THEN acc
    ELSE LET match == MatchData(Head(lines))
         IN  ScanEstimate(Tail(lines),
                 IF match.ok
                 THEN [dates |-> Append(acc.dates, match.date),
                       data |-> Append(acc.data, StrToNat(match.remaining))]
                 ELSE acc)

ReadHistory(text) == ScanEstimate(FileLines(text), [dates |-> <<>>, data |-> <<>>])

\* year, month, day = current_dates[-1].split('-'); datetime(int(year), ...)
LastDate(dates) ==
    LET parts == Split(dates[Len(dates)], "-")
        yr == StrToNat(parts[1])
        mo == StrToNat(parts[2])
        dy == StrToNat(parts[3])
    IN  [ok |-> ValidDate(yr, mo, dy), date |-> Date(yr, mo, dy)]

\* The loop body without its clamp at zero.
ProjectValueUnclamped(last_remaining, worked_days_per_week) ==
    last_remaining - worked_days_per_week

\* One pass of the body of the projection loop on (last_date, last_remaining).
ProjectValue(last_remaining, worked_days_per_week) ==
    IF last_remaining - worked_days_per_week < 0 THEN 0
    ELSE last_remaining - worked_days_per_week

ProjectDate(last_date) == AddDays(last_date, 7)

\* The lines written to estimate.dat.
RECURSIVE EstimateText(_, _)
EstimateText(dates, data) ==
    IF dates = <<>> THEN <<>>
    ELSE Head(dates) \o <<" ", "=", " ">> \o IntToStr(Head(data)) \o <<"\n">>
         \o EstimateText(Tail(dates), Tail(data))


(***************************************************************************)
(* The state: the two store files, and one run of the script at a time.    *)
(***************************************************************************)
VARIABLES
    trend_dat,       \* the text of trend.dat
    estimate_dat,    \* the text of estimate.dat
    run_start,       \* both files as they were when the current run started
    est_from,        \* the store text and decrement estimate.dat was last written from
    runs,            \* the number of runs started
    pc,              \* the position of the current run in __main__
    args,            \* the parsed command line: [add, est]
    today,           \* datetime.now() of the current run
    trello,          \* what the service answers in the current run
    project_board,   \* self.project_board
    custom_fields,   \* self.custom_fields
    labels,          \* self.labels
    lists,           \* self.lists
    cards,           \* self.cards
    report_card,     \* self.report_card
    calls,           \* the collaborator calls of the current run, in order
    current_dates,   \* locals of generate_estimated_trend
    current_data,
    last_date,
    last_remaining,
    iters,           \* the iterations of the projection loop so far
    charts,          \* what generate_trend handed to the renderer, per graph
    rendered,        \* the graphs written in the current run, in order
    err              \* the exception that ended the current run, "" for none

vars == <<trend_dat, estimate_dat, run_start, est_from, runs, pc, args, today, trello,
          project_board, custom_fields, labels, lists, cards, report_card, calls,
          current_dates, current_data, last_date, last_remaining, iters, charts,
          rendered, err>>

\* config['project']['board']
BoardName == "Project"

NoBoard == [id |-> "", name |-> ""]

NoChart == [y_axis |-> <<>>, x_axis |-> <<>>, status |-> <<>>]

NoDate == Date(0, 0, 0)

(***************************************************************************)
(* The inputs of the model: boards, command lines, dates and files.        *)
(***************************************************************************)
Item(field, key, text) == [idCustomField |-> field, value |-> DictV(key, text)]

RawCard(id, name, idList, labelIds, items) ==
    [id |-> id, name |-> name, idList |-> idList, labels |-> labelIds, items |-> items]

Named(id, name) == [id |-> id, name |-> name]

World(boards, labelSeq, listSeq, fieldSeq, cardSeq, attachments, bad) ==
    [boards |-> boards, labels |-> labelSeq, lists |-> listSeq, fields |-> fieldSeq,
     cards |-> cardSeq, attachments |-> attachments, bad |-> bad]

TwoBoards == <<Named("B0", "Other"), Named("B1", "Project")>>

PlainLabels == <<Named("L1", "Exclude")>>

PlainLists == <<Named("T1", "Todo"), Named("T2", "Complete")>>

PlainFields == <<Named("F1", "Remaining")>>

\* Three cards, remaining 5 + 1 + 0; the report card carries the exclude label.
CardsSix ==
    <<RawCard("c1", "Design", "T1", <<>>, <<Item("F1", "number", <<"5">>)>>),
      RawCard("c2", "Build", "T1", <<>>, <<>>),
      RawCard("c3", "Weekly Report", "T1", <<"L1">>, <<>>)>>

\* Remaining 7.5 + 0 (a completed card); no report card.
CardsSeven ==
    <<RawCard("c1", "Design", "T1", <<>>, <<Item("F1", "number", <<"7", ".", "5">>)>>),
      RawCard("c2", "Build", "T2", <<>>, <<Item("F1", "number", <<"5">>)>>)>>

\* Remaining -3 + 1: a negative total.
CardsNegative ==
    <<RawCard("c1", "Design", "T1", <<>>, <<Item("F1", "number", <<"-", "3">>)>>),
      RawCard("c3", "Weekly Report", "T1", <<>>, <<>>)>>

\* Before the first run nothing has been asked of the service.
NoWorld == World(<<>>, <<>>, <<>>, <<>>, <<>>, <<>>, {})

RunWorlds ==
    { World(TwoBoards, PlainLabels, PlainLists, PlainFields, CardsSix, <<"a1", "a2">>, {}),
      World(TwoBoards, PlainLabels, PlainLists, PlainFields, CardsSeven, <<>>, {}),
      World(TwoBoards, PlainLabels, PlainLists, PlainFields, CardsNegative, <<>>, {}),
      World(<<Named("B0", "Other")>>, PlainLabels, PlainLists, PlainFields, CardsSix,
            <<"a1">>, {}),
      World(TwoBoards, PlainLabels, PlainLists, PlainFields, CardsSix, <<"a1">>,
            {"get_card"}),
      World(TwoBoards, PlainLabels, PlainLists, PlainFields, CardsSix, <<"a1">>,
            {"get_all_attachments"}) }

\* --add and --est DAYS (type=int: zero and negative numbers are accepted).
RunArgs == [add : BOOLEAN, est : {-1, 0, 3, 4}]

\* datetime.now() of the n-th run: the script is run once a week.
RunDay(n) == AddDays(Date(2024, 1, 15), 7 * (n - 1))

PointLine(date, value) == FormatIso(date) \o <<" ", "=", " ">> \o IntToStr(value)

\* trend.dat as found by the first run.
InitialStores ==
    { \* two points, as add_datapoint leaves them (no newline at the end)
      PointLine(Date(2024, 1, 1), 10) \o <<"\n">> \o PointLine(Date(2024, 1, 8), 6),
      \* one point and a newline at the end
      PointLine(Date(2024, 2, 1), 9) \o <<"\n">>,
      \* a comment, a hand-written point at the end of a leap February, a blank line
      <<"#", "\n">> \o FormatPlain(Date(2024, 2, 26)) \o <<"=">> \o IntToStr(5)
          \o <<" ", "\n", "\n">>,
      \* a last point of zero at the end of a year
      PointLine(Date(2023, 12, 21), 2) \o <<"\n">> \o PointLine(Date(2023, 12, 28), 0),
      \* a line that matches the pattern and names no day of the calendar
      PointLine(Date(2024, 1, 1), 3) \o <<"\n">> \o PointLine(Date(2024, 2, 30), 4),
      \* no point at all
      <<"#", "\n">> }

InitialEstimates == { <<>>, PointLine(Date(2020, 5, 5), 1) \o <<"\n", "#", "\n">> }


(***************************************************************************)
(* Boards for the properties of card normalization, exclusion and the      *)
(* remaining time: every combination of the choices below, two cards.      *)
(***************************************************************************)
LabelChoices ==
    { <<>>,
      <<Named("L1", "Exclude")>>,
      <<Named("L1", "Bug"), Named("L2", "exclude")>>,
      <<Named("L1", "EXCLUDE"), Named("L2", "Exclude")>> }

ListChoices ==
    { <<Named("T1", "Todo"), Named("T2", "Complete")>>,
      <<Named("T1", "complete"), Named("T2", "COMPLETE")>>,
      <<Named("T1", "Todo"), Named("T2", "Bug")>> }

FieldChoices ==
    { <<Named("F1", "Remaining")>>,
      <<Named("F1", "REMAINING"), Named("F2", "Exclude")>>,
      <<Named("F1", "Owner"), Named("F2", "Name")>> }

ItemChoices ==
    { <<>>,
      <<Item("F1", "number", <<"2", ".", "5">>)>>,
      <<Item("F9", "number", <<"8">>), Item("F1", "number", <<"-", "1", ".", "5">>)>>,
      <<Item("F2", "checked", <<"t", "r", "u", "e">>)>>,
      <<Item("F1", "number", <<"1", ",", "5">>)>>,
      <<Item("F1", "text", <<"3">>)>> }

FirstCards ==
    { RawCard("c1", name, idList, labelIds, items) :
        name \in {"Design", "Weekly Report"},
        idList \in {"T1", "T2"},
        labelIds \in {<<>>, <<"L1">>, <<"L2">>, <<"L2", "L1">>},
        items \in ItemChoices }

SecondCards ==
    { RawCard("c2", "Build", "T1", <<>>, <<>>),
      RawCard("c2", "Weekly Report", "T2", <<"L1">>, <<Item("F1", "number", <<"3">>)>>) }

CardWorlds ==
    { World(TwoBoards, labelSeq, listSeq, fieldSeq, <<first, second>>, <<"a1">>, {}) :
        labelSeq \in LabelChoices, listSeq \in ListChoices, fieldSeq \in FieldChoices,
        first \in FirstCards, second \in SecondCards }

(***************************************************************************)
(* The steps of a run, in the order of __main__.                           *)
(***************************************************************************)
Bad(op) == op \in trello.bad

Crash(e) == pc' = "crashed" /\ err' = e

EstimateLocals == <<current_dates, current_data, last_date, last_remaining, iters>>

Snapshot == <<project_board, custom_fields, labels, lists>>

Files == <<trend_dat, estimate_dat, est_from>>

RunInputs == <<run_start, runs, args, today, trello>>

\* A run of the script starts: a fresh process with its command line.
StartRun(a, w) ==
    /\ pc \in {"idle", "done", "crashed"}
    /\ runs' = runs + 1
    /\ args' = a
    /\ trello' = w
    /\ today' = RunDay(runs + 1)
    /\ run_start' = [trend |-> trend_dat, estimate |-> estimate_dat]
    /\ pc' = "main"
    /\ project_board' = NoBoard
    /\ custom_fields' = <<>>
    /\ labels' = <<>>
    /\ lists' = <<>>
    /\ cards' = <<>>
    /\ report_card' = [some |-> FALSE, id |-> ""]
    /\ calls' = <<>>
    /\ current_dates' = <<>>
    /\ current_data' = <<>>
    /\ last_date' = NoDate
    /\ last_remaining' = 0
    /\ iters' = 0
    /\ charts' = [figure |-> NoChart, estimate |-> NoChart]
    /\ rendered' = <<>>
    /\ err' = ""
    /\ UNCHANGED Files

\* ProjectTrend.__init__
Construct ==
    /\ pc = "main"
    /\ LET found == GetBoardWithName(trello.boards, BoardName)
           c1 == <<Call("get_board_with_name", BoardName, "")>>
           c2 == Append(c1, Call("get_custom_fields", found.board.id, ""))
           c3 == Append(c2, Call("get_boards_labels", found.board.id, ""))
           c4 == Append(c3, Call("get_boards_lists", found.board.id, ""))
           fieldDict == IF Bad("get_custom_fields") THEN <<>>
                        ELSE DictFromList(<<>>, trello.fields)
           labelDict == IF Bad("get_custom_fields") \/ Bad("get_boards_labels") THEN <<>>
                        ELSE DictFromList(<<>>, trello.labels)
       IN  IF Bad("get_board_with_name")
           THEN /\ calls' = c1
                /\ Crash("TypeError")
                /\ UNCHANGED Snapshot
           ELSE IF ~found.found
           THEN /\ calls' = c1
                /\ Crash("ValueError")
                /\ UNCHANGED Snapshot
           ELSE /\ project_board' = found.board
                /\ custom_fields' = fieldDict
                /\ labels' = labelDict
                /\ IF Bad("get_custom_fields")
                   THEN calls' = c2 /\ Crash("TypeError") /\ lists' = <<>>
                   ELSE IF Bad("get_boards_labels")
                   THEN calls' = c3 /\ Crash("TypeError") /\ lists' = <<>>
                   ELSE IF Bad("get_boards_lists")
                   THEN calls' = c4 /\ Crash("TypeError") /\ lists' = <<>>
                   ELSE /\ calls' = c4
                        /\ lists' = DictFromList(<<>>, trello.lists)
                        /\ pc' = "constructed"
                        /\ err' = ""
    /\ UNCHANGED <<Files, RunInputs, cards, report_card, EstimateLocals, charts, rendered>>

\* The calls of the loop of initialize_cards: one get_custom_field_items per card.
ItemCalls(raw) == [i \in 1..Len(raw) |-> Call("get_custom_field_items", raw[i].id, "")]

\* ProjectTrend.initialize_cards
InitializeCards ==
    /\ pc = "constructed"
    /\ LET raw == trello.cards
           c1 == Append(calls, Call("get_all_cards", project_board.id, ""))
           all == [i \in 1..Len(raw) |->
                      NormalizeCard(custom_fields, labels, lists, raw[i])]
           found == GetCardByName(all, "Weekly Report")
       IN  IF Bad("get_all_cards")
           THEN calls' = c1 /\ Crash("TypeError") /\ UNCHANGED <<cards, report_card>>
           ELSE IF raw # <<>> /\ Bad("get_custom_field_items")
           THEN /\ calls' = Append(c1, ItemCalls(raw)[1])
                /\ Crash("TypeError")
                /\ UNCHANGED <<cards, report_card>>
           ELSE /\ cards' = all
                /\ pc' = "cards"
                /\ err' = ""
                /\ IF found = 0
                   THEN calls' = c1 \o ItemCalls(raw) /\ UNCHANGED report_card
                   ELSE /\ calls' = (c1 \o ItemCalls(raw))
                                    \o <<Call("get_card", all[found]["id"].s, "")>>
                        /\ report_card' = [some |-> ~Bad("get_card"),
                                           id |-> IF Bad("get_card") THEN ""
                                                  ELSE all[found]["id"].s]
    /\ UNCHANGED <<Files, RunInputs, Snapshot, EstimateLocals, charts, rendered>>

\* ProjectTrend.add_datapoint, called when --add is given.
AddDatapoint ==
    /\ pc = "cards"
    /\ args.add
    /\ LET total == TotalRemaining(cards, 0)
       IN  IF total.err # ""
           THEN Crash(total.err) /\ UNCHANGED trend_dat
           ELSE /\ trend_dat' = OpenAppend(trend_dat, DatapointText(today, total.q))
                /\ pc' = "added"
                /\ err' = ""
    /\ UNCHANGED <<estimate_dat, est_from, RunInputs, Snapshot, cards, report_card,
                   calls, EstimateLocals, charts, rendered>>

\* ProjectTrend.generate_trend() on trend.dat.  The regression and the drawing
\* (statsmodels, plotly) are the renderer's; the step records what it is given.
GenerateTrend ==
    /\ pc = "added" \/ (pc = "cards" /\ ~args.add)
    /\ LET r == ReadTrend(trend_dat)
       IN  IF r.err # ""
           THEN Crash(r.err) /\ UNCHANGED <<charts, rendered>>
           ELSE /\ charts' = [charts EXCEPT !.figure =
                                 [y_axis |-> r.y_axis, x_axis |-> r.x_axis,
                                  status |-> r.status]]
                /\ rendered' = Append(rendered, "figure")
                /\ pc' = "trend"
                /\ err' = ""
    /\ UNCHANGED <<Files, RunInputs, Snapshot, cards, report_card, calls, EstimateLocals>>


\* generate_estimated_trend up to its loop: read trend.dat, take the last point.
EstimateRead ==
    /\ pc = "trend"
    /\ LET h == ReadHistory(trend_dat)
       IN  /\ current_dates' = h.dates
           /\ current_data' = h.data
           /\ iters' = 0
           /\ IF h.dates = <<>>
              THEN Crash("IndexError") /\ UNCHANGED <<last_date, last_remaining>>
              ELSE IF ~LastDate(h.dates).ok
              THEN Crash("ValueError") /\ UNCHANGED <<last_date, last_remaining>>
              ELSE /\ last_date' = LastDate(h.dates).date
                   /\ last_remaining' = h.data[Len(h.data)]
                   /\ pc' = "est_loop"
                   /\ err' = ""
    /\ UNCHANGED <<Files, RunInputs, Snapshot, cards, report_card, calls, charts, rendered>>

\* One iteration of "while last_remaining > 0".
EstimateStep ==
    /\ pc = "est_loop"
    /\ last_remaining > 0
    /\ iters < MaxIter
    /\ iters' = iters + 1
    /\ LET d == ProjectDate(last_date)
           v == ProjectValue(last_remaining, args.est)
       IN  IF d.y > 9999
           THEN /\ Crash("OverflowError")
                /\ UNCHANGED <<current_dates, current_data, last_date, last_remaining>>
           ELSE /\ last_date' = d
                /\ last_remaining' = v
                /\ current_dates' = Append(current_dates, FormatPlain(d))
                /\ current_data' = Append(current_data, v)
                /\ UNCHANGED <<pc, err>>
    /\ UNCHANGED <<Files, RunInputs, Snapshot, cards, report_card, calls, charts, rendered>>

\* generate_estimated_trend after its loop: write estimate.dat, draw the estimate.
EstimateWrite ==
    /\ pc = "est_loop"
    /\ ~(last_remaining > 0)
    /\ LET text == EstimateText(current_dates, current_data)
           r == ReadTrend(text)
       IN  /\ estimate_dat' = OpenWrite(estimate_dat, text)
           /\ est_from' = [written |-> TRUE, trend |-> trend_dat, k |-> args.est]
           /\ IF r.err # ""
              THEN Crash(r.err) /\ UNCHANGED <<charts, rendered>>
              ELSE /\ charts' = [charts EXCEPT !.estimate =
                                    [y_axis |-> r.y_axis, x_axis |-> r.x_axis,
                                     status |-> r.status]]
                   /\ rendered' = Append(rendered, "estimate")
                   /\ pc' = "estimated"
                   /\ err' = ""
    /\ UNCHANGED <<trend_dat, RunInputs, Snapshot, cards, report_card, calls,
                   EstimateLocals>>

\* The delete_attachment calls of add_trends_to_trello.
DeleteCalls(id, attachments) ==
    [i \in 1..Len(attachments) |-> Call("delete_attachment", id, attachments[i])]

\* The two uploads with the cover flags exchanged.
AttachCallsCoverSwapped(id) ==
    <<Call("add_attachment", id, <<"figure.png", "false">>),
      Call("add_attachment", id, <<"estimate.png", "true">>)>>

\* The add_attachment calls: the file and setCover = str(cover).lower().
AttachCalls(id) ==
    <<Call("add_attachment", id, <<"figure.png", "true">>),
      Call("add_attachment", id, <<"estimate.png", "false">>)>>

\* ProjectTrend.add_trends_to_trello
AddTrendsToTrello ==
    /\ pc = "estimated"
    /\ IF ~report_card.some
       THEN pc' = "done" /\ UNCHANGED <<calls, err>>
       ELSE LET id == report_card.id
                c1 == Append(calls, Call("get_all_attachments", id, ""))
            IN  IF Bad("get_all_attachments")
                THEN calls' = c1 /\ Crash("TypeError")
                ELSE /\ calls' = (c1 \o DeleteCalls(id, trello.attachments))
                                 \o AttachCalls(id)
                     /\ pc' = "done"
                     /\ err' = ""
    /\ UNCHANGED <<Files, RunInputs, Snapshot, cards, report_card, EstimateLocals,
                   charts, rendered>>

(***************************************************************************)
(* The specification: runs of the script, one after the other, on the      *)
(* same two files.                                                         *)
(***************************************************************************)
Init ==
    /\ trend_dat \in InitialStores
    /\ estimate_dat \in InitialEstimates
    /\ run_start = [trend |-> trend_dat, estimate |-> estimate_dat]
    /\ est_from = [written |-> FALSE, trend |-> <<>>, k |-> 0]
    /\ runs = 0
    /\ pc = "idle"
    /\ args = [add |-> FALSE, est |-> 4]
    /\ today = NoDate
    /\ trello = NoWorld
    /\ project_board = NoBoard
    /\ custom_fields = <<>>
    /\ labels = <<>>
    /\ lists = <<>>
    /\ cards = <<>>
    /\ report_card = [some |-> FALSE, id |-> ""]
    /\ calls = <<>>
    /\ current_dates = <<>>
    /\ current_data = <<>>
    /\ last_date = NoDate
    /\ last_remaining = 0
    /\ iters = 0
    /\ charts = [figure |-> NoChart, estimate |-> NoChart]
    /\ rendered = <<>>
    /\ err = ""

Next ==
    \/ /\ runs < MaxRuns
       /\ \E a \in RunArgs, w \in RunWorlds : StartRun(a, w)
    \/ Construct
    \/ InitializeCards
    \/ AddDatapoint
    \/ GenerateTrend
    \/ EstimateRead
    \/ EstimateStep
    \/ EstimateWrite
    \/ AddTrendsToTrello

Spec == Init /\ [][Next]_vars

(***************************************************************************)
(* One run with --add on each of the boards of CardWorlds, from the store  *)
(* of two points.                                                          *)
(***************************************************************************)
InitCards ==
    /\ Init
    /\ trend_dat = PointLine(Date(2024, 1, 1), 10) \o <<"\n">>
                       \o PointLine(Date(2024, 1, 8), 6)
    /\ estimate_dat = <<>>

NextCards ==
    \/ /\ runs = 0
       /\ \E w \in CardWorlds : StartRun([add |-> TRUE, est |-> 4], w)
    \/ Construct
    \/ InitializeCards
    \/ AddDatapoint
    \/ GenerateTrend
    \/ EstimateRead
    \/ EstimateStep
    \/ EstimateWrite
    \/ AddTrendsToTrello

SpecCards == InitCards /\ [][NextCards]_vars


(***************************************************************************)
(* Properties.                                                             *)
(***************************************************************************)
\* The date a matched date text stands for.
DateOfText(text) ==
    LET parts == Split(text, "-")
    IN  Date(StrToNat(parts[1]), StrToNat(parts[2]), StrToNat(parts[3]))

\* The parseable points of a store, in file order.
PointsOf(text) ==
    LET h == ReadHistory(text)
    IN  [i \in 1..Len(h.dates) |-> [date |-> DateOfText(h.dates[i]), value |-> h.data[i]]]

AtLeastZero(n) == IF n < 0 THEN 0 ELSE n

\* generate_estimated_trend has returned in the current run.
EstimateDone == pc \in {"estimated", "done"}

\* The points a projection from (d, v) with weekly decrement k > 0 adds.
ProjectedPoints(d, v, k) ==
    [i \in 1..((v + k - 1) \div k) |->
        [date |-> AddDays(d, 7 * i), value |-> AtLeastZero(v - i * k)]]

\* C1: with a weekly decrement k > 0 and last parseable point (d, v),
\* generate_estimated_trend appends exactly ceil(v / k) points after the history;
\* the i-th has value max(0, v - i*k) and date d + 7*i days, the last value is 0,
\* and for v = 0 nothing is appended.
C1_ProjectionPoints ==
    (EstimateDone /\ args.est > 0) =>
        LET pts == PointsOf(trend_dat)
            n == Len(pts)
            v == pts[n].value
            proj == ProjectedPoints(pts[n].date, v, args.est)
        IN  /\ Len(current_data) = n + Len(proj)
            /\ Len(current_dates) = n + Len(proj)
            /\ \A i \in 1..n : /\ current_data[i] = pts[i].value
                               /\ DateOfText(current_dates[i]) = pts[i].date
            /\ \A i \in 1..Len(proj) :
                   /\ current_data[n + i] = proj[i].value
                   /\ DateOfText(current_dates[n + i]) = proj[i].date
            /\ (v > 0 => current_data[Len(current_data)] = 0)
            /\ (v = 0 => Len(current_data) = n)

\* The example of the specification: from (2024-02-01, 9) with decrement 4.
C1_Witness ==
    /\ EstimateDone
    /\ args.est = 4
    /\ current_data = <<9, 5, 1, 0>>
    /\ [i \in 1..4 |-> DateOfText(current_dates[i])]
           = <<Date(2024, 2, 1), Date(2024, 2, 8), Date(2024, 2, 15), Date(2024, 2, 22)>>


\* C2: a weekly decrement k <= 0 is rejected: once generate_estimated_trend has read
\* a store with at least one parseable point, the run has ended in an error and the
\* projection loop has not been entered.
C2_NonPositiveDecrementRejected ==
    (args.est <= 0 /\ current_dates # <<>>) => (pc = "crashed" /\ iters = 0)


\* The points the reader of generate_trend hands to the renderer.
ChartPoints(chart) ==
    [i \in 1..Len(chart.y_axis) |-> [date |-> chart.x_axis[i], value |-> chart.y_axis[i]]]

\* The total of the cards of the current run as add_datapoint writes it.
RunTotal == IntOfFloat(TotalRemaining(cards, 0).q)

\* C5: after add_datapoint, reading the Trend Store back (with the reader of
\* generate_estimated_trend and with the reader of generate_trend) yields the points
\* the store held before, followed by the appended point: today's date and the
\* integer total.
C5_AppendReadRoundTrip ==
    (pc = "added") =>
        LET expected == Append(PointsOf(run_start.trend),
                               [date |-> today, value |-> RunTotal])
        IN  /\ PointsOf(trend_dat) = expected
            /\ ReadTrend(trend_dat).err = ""
            /\ ChartPoints(ReadTrend(trend_dat)) = expected

\* The statuses the claim gives to a series of values.
StatusOf(values, i) ==
    IF i = 1 THEN "start"
    ELSE IF values[i] < values[i - 1] THEN "better"
    ELSE IF values[i] > values[i - 1] THEN "worse"
    ELSE "same"

StatusesMatch(chart, text) ==
    LET pts == PointsOf(text)
    IN  /\ Len(chart.status) = Len(pts)
        /\ \A i \in 1..Len(pts) :
               chart.status[i] = StatusOf([j \in 1..Len(pts) |-> pts[j].value], i)

\* C6: the status list of generate_trend has one entry per parsed point; the first
\* is 'start', every later one is 'better', 'worse' or 'same' as its value is less
\* than, greater than or equal to the value of the point just before it in the file.
C6_StatusByPredecessor ==
    /\ (Len(rendered) >= 1 => StatusesMatch(charts.figure, trend_dat))
    /\ (Len(rendered) >= 2 => StatusesMatch(charts.estimate, estimate_dat))

\* The example of the specification: 10 and 6 in the store, 6 appended.
C6_Witness ==
    /\ pc = "trend"
    /\ charts.figure.y_axis = <<10, 6, 6>>
    /\ charts.figure.status = <<"start", "better", "same">>

\* The current step is a call of add_datapoint that returns.
AddDatapointReturns == pc = "cards" /\ pc' = "added"

\* C7: the Trend Store is append-only: its content before a step is a prefix of its
\* content after it, only add_datapoint changes it, by exactly one line, and a call
\* of add_datapoint grows the store by exactly one point.
C7_AppendOnlyOnePoint ==
    [][/\ IsPrefix(trend_dat, trend_dat')
       /\ (trend_dat' # trend_dat =>
              /\ AddDatapointReturns
              /\ args.add
              /\ Len(FileLines(trend_dat' \o <<"\n">>))
                     = Len(FileLines(trend_dat \o <<"\n">>)) + 1)
       /\ (AddDatapointReturns =>
              Len(PointsOf(trend_dat')) = Len(PointsOf(trend_dat)) + 1)]_vars


\* The calls add_trends_to_trello has issued: those after the calls of __init__
\* (four) and of initialize_cards (one, one per card, and the re-fetch of the
\* report card when a card has its name).
ReportIndex ==
    IF \E i \in 1..Len(cards) : cards[i]["name"] = Str("Weekly Report")
    THEN CHOOSE i \in 1..Len(cards) :
             /\ cards[i]["name"] = Str("Weekly Report")
             /\ \A j \in 1..(i - 1) : cards[j]["name"] # Str("Weekly Report")
    ELSE 0

PublishCalls ==
    LET before == 5 + Len(cards) + (IF ReportIndex > 0 THEN 1 ELSE 0)
    IN  SubSeq(calls, before + 1, Len(calls))

\* What the claim expects of a publication on card id with the listed attachments.
ReplaceAttachments(id, listed) ==
    (<<Call("get_all_attachments", id, "")>>
        \o [i \in 1..Len(listed) |-> Call("delete_attachment", id, listed[i])])
        \o <<Call("add_attachment", id, <<"figure.png", "true">>),
             Call("add_attachment", id, <<"estimate.png", "false">>)>>

\* C8 as stated: whenever a card named "Weekly Report" is among the normalized cards,
\* add_trends_to_trello deletes every attachment and then adds the two charts;
\* otherwise it issues no call.
C8_PublishWheneverNamed ==
    (pc = "done") =>
        IF ReportIndex > 0
        THEN PublishCalls
                 = ReplaceAttachments(cards[ReportIndex]["id"].s, trello.attachments)
        ELSE PublishCalls = <<>>

\* C8 amended: the attachments are replaced when the card exists and its re-fetch by
\* id returned it; when there is no such card, or the re-fetch returned nothing, no
\* call is issued and no error raised; when the listing of the attachments returns
\* nothing the run ends there, with nothing deleted or added.
C8_PublishWhenFetched ==
    /\ (pc = "done") =>
           IF ReportIndex > 0 /\ "get_card" \notin trello.bad
           THEN PublishCalls
                    = ReplaceAttachments(cards[ReportIndex]["id"].s, trello.attachments)
           ELSE PublishCalls = <<>>
    /\ (pc = "crashed" /\ Len(rendered) = 2) =>
           /\ ReportIndex > 0
           /\ "get_all_attachments" \in trello.bad
           /\ PublishCalls = <<Call("get_all_attachments", cards[ReportIndex]["id"].s, "")>>

C8_Witness ==
    /\ pc = "done"
    /\ ReportIndex = 3
    /\ Len(trello.attachments) = 2
    /\ Len(PublishCalls) = 5
    /\ PublishCalls[2].op = "delete_attachment"
    /\ PublishCalls[5] = Call("add_attachment", "c3", <<"estimate.png", "false">>)

\* No board of the account has the configured name.
BoardMissing ==
    /\ "get_board_with_name" \notin trello.bad
    /\ \A i \in 1..Len(trello.boards) : trello.boards[i].name # BoardName

\* C9: when no board has the configured name the run ends in __init__ with an error:
\* the board lookup is its only collaborator call, no card is normalized and neither
\* store is written.
C9_MissingBoardAborts ==
    (pc \notin {"idle", "main"} /\ BoardMissing) =>
        /\ pc = "crashed"
        /\ err = "ValueError"
        /\ calls = <<Call("get_board_with_name", BoardName, "")>>
        /\ cards = <<>>
        /\ trend_dat = run_start.trend
        /\ estimate_dat = run_start.estimate

C9_Witness ==
    /\ pc = "crashed"
    /\ BoardMissing
    /\ args.add
    /\ trello.cards # <<>>
    /\ Len(calls) = 1

\* The content the claim gives to the Estimate Store for a store text and decrement.
ExpectedEstimate(text, k) ==
    LET hist == PointsOf(text)
        last == hist[Len(hist)]
    IN  IF last.value > 0 /\ k > 0
        THEN hist \o ProjectedPoints(last.date, last.value, k)
        ELSE hist

\* The current step is the return of generate_estimated_trend.
EstimateReturns == pc = "est_loop" /\ pc' = "estimated"

\* C10: when generate_estimated_trend returns, the Estimate Store holds the parseable
\* points of the Trend Store in file order, then the projected points, and no other
\* line, whatever it held before; and when it was last written from the same Trend
\* Store with the same decrement, it is left as it was.
C10_EstimateRegenerated ==
    [][EstimateReturns =>
          /\ PointsOf(estimate_dat') = ExpectedEstimate(trend_dat, args.est)
          /\ Len(FileLines(estimate_dat')) = Len(ExpectedEstimate(trend_dat, args.est))
          /\ (est_from.written /\ est_from.trend = trend_dat /\ est_from.k = args.est
                  => estimate_dat' = estimate_dat)]_vars

\* A second run on the same store with the same decrement, after a first one that
\* replaced a stale Estimate Store.
C10_Witness ==
    /\ EstimateDone
    /\ runs = 2
    /\ est_from = [written |-> TRUE, trend |-> run_start.trend, k |-> 4]
    /\ estimate_dat = run_start.estimate
    /\ [i \in 1..Len(PointsOf(estimate_dat)) |-> PointsOf(estimate_dat)[i].value]
           = <<10, 6, 2, 0>>


\* initialize_cards has returned in the current run (every board here has cards).
CardsNormalized == cards # <<>>

CarriesLabel(card, id) == \E i \in 1..Len(card.labels) : card.labels[i] = id

\* C3 as stated: a card is excluded exactly when it carries the id of a label named
\* "exclude" or is in a list named "complete", names compared without case.
ExcludedByAnyNamed(card) ==
    \/ \E i \in 1..Len(labels) :
           Lower(labels[i].name) = "exclude" /\ CarriesLabel(card, labels[i].id)
    \/ \E i \in 1..Len(lists) :
           Lower(lists[i].name) = "complete" /\ card.idList = lists[i].id

C3_ExcludeAnyNamed ==
    CardsNormalized =>
        \A i \in 1..Len(trello.cards) :
            /\ CalculateExclude(labels, lists, trello.cards[i])
                   = ExcludedByAnyNamed(trello.cards[i])
            /\ (cards[i]["exclude"].t = "bool" =>
                   cards[i]["exclude"].b = ExcludedByAnyNamed(trello.cards[i]))

\* C3 amended: a card is excluded exactly when it carries the id of the first label
\* of the board named "exclude" or is in the first list named "complete", names
\* compared without case; with no such label (list) that check is never true.
ExcludedByFirstNamed(card) ==
    \/ \E i \in 1..Len(labels) :
           /\ Lower(labels[i].name) = "exclude"
           /\ \A j \in 1..(i - 1) : Lower(labels[j].name) # "exclude"
           /\ CarriesLabel(card, labels[i].id)
    \/ \E i \in 1..Len(lists) :
           /\ Lower(lists[i].name) = "complete"
           /\ \A j \in 1..(i - 1) : Lower(lists[j].name) # "complete"
           /\ card.idList = lists[i].id

C3_ExcludeFirstNamed ==
    CardsNormalized =>
        \A i \in 1..Len(trello.cards) :
            /\ CalculateExclude(labels, lists, trello.cards[i])
                   = ExcludedByFirstNamed(trello.cards[i])
            /\ (cards[i]["exclude"].t = "bool" =>
                   cards[i]["exclude"].b = ExcludedByFirstNamed(trello.cards[i]))

\* A card that carries only the second of two labels named "exclude" is not excluded.
C3_Witness ==
    /\ pc = "cards"
    /\ labels = <<Named("L1", "EXCLUDE"), Named("L2", "Exclude")>>
    /\ trello.cards[1].labels = <<"L2">>
    /\ cards[1]["exclude"] = Bool(FALSE)
    /\ cards[2]["exclude"] = Bool(TRUE)

\* The contribution the claim gives to a card, in quarters.
Contribution(card) ==
    IF Truthy(card["exclude"]) THEN 0
    ELSE IF "remaining" \in DOMAIN card THEN ParseFloat(card["remaining"].v).q
    ELSE 4

RECURSIVE SumContributions(_)
SumContributions(cs) ==
    IF cs = <<>> THEN 0 ELSE Contribution(Head(cs)) + SumContributions(Tail(cs))

\* The integer part of q quarters.
IntegerPart(q) ==
    CHOOSE n \in -100..100 :
        IF q >= 0 THEN 4 * n <= q /\ q < 4 * n + 4
        ELSE 4 * n - 4 < q /\ q <= 4 * n

\* C4: _get_card_remaining_time gives 0 for an excluded card, else the number of
\* 'remaining' when the record has it, else 1; add_datapoint appends the integer
\* part of the sum of these over all the cards.
C4_RemainingTotal ==
    (pc = "added") =>
        /\ \A i \in 1..Len(cards) :
               /\ GetCardRemainingTime(cards[i]).err = ""
               /\ GetCardRemainingTime(cards[i]).q = Contribution(cards[i])
        /\ trend_dat = (((run_start.trend \o <<"\n">>) \o FormatIso(today))
                           \o <<" ", "=", " ">>)
                           \o IntToStr(IntegerPart(SumContributions(cards)))

\* An excluded card with a remaining time, a card without one, and 2.5 + 1 written as 3.
C4_Witness ==
    /\ pc = "added"
    /\ Len(cards) = 2
    /\ ~Truthy(cards[1]["exclude"])
    /\ "remaining" \in DOMAIN cards[1]
    /\ cards[1]["remaining"] = DictV("number", <<"2", ".", "5">>)
    /\ "remaining" \notin DOMAIN cards[2]
    /\ SumContributions(cards) = 14
    /\ SubSeq(trend_dat, Len(trend_dat) - 3, Len(trend_dat)) = <<" ", "=", " ", "3">>


\* The items of a raw card whose field id is in the custom-field mapping.
KnownItems(raw) ==
    {j \in 1..Len(raw.items) : HasKey(custom_fields, raw.items[j].idCustomField)}

\* The lower-cased name of the field of item j of a raw card.
FieldOf(raw, j) == Lower(Lookup(custom_fields, raw.items[j].idCustomField))

\* C11 as stated: after initialize_cards there is one record per raw card, in
\* order; its id, name and list are the raw card's id, name and idList, its
\* exclude is the result of _calculate_exclude, whatever the custom fields are
\* called; every item with a known field id is stored under the lower-cased name
\* of its field, and the record has no other key.
C11_RecordsVerbatim ==
    CardsNormalized =>
        /\ Len(cards) = Len(trello.cards)
        /\ \A i \in 1..Len(trello.cards) :
               LET raw == trello.cards[i]
                   rec == cards[i]
               IN  /\ rec["id"] = Str(raw.id)
                   /\ rec["name"] = Str(raw.name)
                   /\ rec["list"] = Str(raw.idList)
                   /\ rec["exclude"] = Bool(CalculateExclude(labels, lists, raw))
                   /\ \A j \in KnownItems(raw) :
                          /\ FieldOf(raw, j) \in DOMAIN rec
                          /\ (\A k \in KnownItems(raw) : k > j => FieldOf(raw, k) # FieldOf(raw, j))
                                 => rec[FieldOf(raw, j)] = raw.items[j].value
                   /\ DOMAIN rec = {"id", "name", "list", "exclude"}
                                       \cup {FieldOf(raw, j) : j \in KnownItems(raw)}


\* The lines of a store that match the pattern, in file order.
MatchingLines(text) == SelectSeq(FileLines(text), LAMBDA line : MatchData(line).ok)

\* The point a matching line stands for.
LinePoint(line) ==
    LET match == MatchData(line)
    IN  [date |-> Date(StrToNat(match.year), StrToNat(match.month), StrToNat(match.day)),
         value |-> StrToNat(match.remaining)]

MatchingPoints(text) ==
    [i \in 1..Len(MatchingLines(text)) |-> LinePoint(MatchingLines(text)[i])]

\* Some matching line of the store holds a date that is no calendar date.
HasInvalidDate(text) ==
    \E i \in 1..Len(MatchingPoints(text)) :
        LET d == MatchingPoints(text)[i].date IN ~ValidDate(d.y, d.m, d.d)

\* What both readers do right: the points they return are those of the matching
\* lines in file order, and a ValueError of a reader comes from a matching line.
ReadersReturnMatchingPoints ==
    /\ (Len(rendered) >= 1 => ChartPoints(charts.figure) = MatchingPoints(trend_dat))
    /\ (Len(rendered) >= 2 => ChartPoints(charts.estimate) = MatchingPoints(estimate_dat))
    /\ (pc \in {"est_loop", "estimated", "done"} =>
           LET pts == MatchingPoints(trend_dat)
           IN  /\ Len(current_dates) >= Len(pts)
               /\ Len(current_data) >= Len(pts)
               /\ \A i \in 1..Len(pts) :
                      /\ DateOfText(current_dates[i]) = pts[i].date
                      /\ current_data[i] = pts[i].value)
    /\ (pc = "crashed" /\ err = "ValueError" /\ cards # <<>>) => HasInvalidDate(trend_dat)

\* C12: lines that do not match are skipped, not errors: for every store, also one
\* without any matching line, the readers of generate_trend and of
\* generate_estimated_trend return the points of the matching lines in file order
\* and no run ends in an error for want of a matching line.
C12_UnparseableLinesSkipped ==
    /\ ReadersReturnMatchingPoints
    /\ (pc = "crashed" /\ cards # <<>> /\ MatchingLines(trend_dat) = <<>>) => Len(rendered) = 2


\* The card has a 'remaining' that is no {number: <text of a number>}.
Uncoercible(card) ==
    /\ "remaining" \in DOMAIN card
    /\ \/ card["remaining"].t # "dict"
       \/ card["remaining"].k # "number"
       \/ ~ParseFloat(card["remaining"].v).ok

\* C13: a call of add_datapoint ends the run with an error, the Trend Store as it
\* was, when some card that is not excluded has a 'remaining' that cannot be made
\* a number; otherwise it returns, whatever 'remaining' the excluded cards have.
C13_UncoercibleRemainingFails ==
    [][(pc = "cards" /\ args.add) =>
          IF \E i \in 1..Len(cards) : ~Truthy(cards[i]["exclude"]) /\ Uncoercible(cards[i])
          THEN /\ pc' = "crashed"
               /\ err' \in {"ValueError", "KeyError", "TypeError"}
               /\ trend_dat' = trend_dat
          ELSE /\ pc' = "added"
               /\ err' = ""
               /\ trend_dat' # trend_dat]_vars

\* The run has failed in add_datapoint on the number "1,5" of the first card, the
\* store as at the start of the run, nothing rendered and nothing published.
C13_Witness ==
    /\ pc = "crashed"
    /\ err = "ValueError"
    /\ ~Truthy(cards[1]["exclude"])
    /\ Uncoercible(cards[1])
    /\ cards[1]["remaining"] = DictV("number", <<"1", ",", "5">>)
    /\ Truthy(cards[2]["exclude"])
    /\ trend_dat = run_start.trend
    /\ rendered = <<>>


\* The names of the collaborator calls of a call log, in order.
Ops(cs) == [i \in 1..Len(cs) |-> cs[i].op]

Issued(cs, op) == \E i \in 1..Len(cs) : cs[i].op = op

\* The steps of one run take effect in the order of __main__: the four reads of
\* the board snapshot come before the cards are normalized; the store is appended
\* to only with --add, after the normalization and before any chart; the trend
\* chart is rendered first, from a store that holds this run's line exactly when
\* --add was given; the Estimate Store is written and the estimate chart rendered
\* after it; the attachments are listed, deleted and added only after both charts.
StepsInOrder ==
    /\ (cards' # cards /\ cards' # <<>>) =>
           Ops(calls) = <<"get_board_with_name", "get_custom_fields",
                          "get_boards_labels", "get_boards_lists">>
    /\ (trend_dat' # trend_dat) =>
           /\ args.add
           /\ Issued(calls, "get_custom_field_items")
           /\ trend_dat = run_start.trend
           /\ rendered = <<>>
    /\ (rendered' # rendered /\ rendered' # <<>>) =>
           \/ /\ rendered = <<>>
              /\ rendered' = <<"figure">>
              /\ Issued(calls, "get_custom_field_items")
              /\ args.add <=> trend_dat # run_start.trend
              /\ estimate_dat = run_start.estimate
           \/ /\ rendered = <<"figure">>
              /\ rendered' = <<"figure", "estimate">>
    /\ (estimate_dat' # estimate_dat) => rendered = <<"figure">>
    /\ (calls' # calls /\ \/ Issued(calls', "get_all_attachments")
                          \/ Issued(calls', "delete_attachment")
                          \/ Issued(calls', "add_attachment")) =>
           /\ rendered = <<"figure", "estimate">>
           /\ ~Issued(calls, "get_all_attachments")

\* The point add_datapoint has appended in a run with --add.
AppendedPoint == [date |-> today, value |-> RunTotal]

\* With --add, the trend chart is rendered with the appended point as its last
\* point, and the projection starts from that point.
ProjectsFromAppendedPoint ==
    /\ (args.add /\ rendered = <<>> /\ rendered' = <<"figure">>) =>
           LET pts == ChartPoints(charts'.figure)
           IN  pts # <<>> /\ pts[Len(pts)] = AppendedPoint
    /\ (args.add /\ pc = "trend" /\ pc' = "est_loop") =>
           /\ last_date' = AppendedPoint.date
           /\ last_remaining' = AppendedPoint.value

\* C14: in every run the steps happen in the order snapshot, normalization, append
\* (with --add), trend render, projection and estimate render, publish; with --add
\* the point appended in the run is the last point of the rendered trend series and
\* the point the projection starts from, whatever the dates of the earlier lines;
\* no attachment is deleted or added before both charts are rendered.
C14_PipelineOrder == [][StepsInOrder /\ ProjectsFromAppendedPoint]_vars

=============================================================================
